---- MODULE Spec2Model ----
(***************************************************************************)
(* Model of src/demand_normalization.py: process_demand_sheet reads the    *)
(* DEMAND and DATA sheets of a workbook, decides which item codes keep     *)
(* their original values, merges period cells below 30 into the cell to    *)
(* the right, rounds positive cells up to a multiple of 10, restores the   *)
(* kept rows and writes the result to a new workbook.                      *)
(*                                                                         *)
(* A cell is a record [k, v]: k = "num" (a number, v its value), "nan" (an *)
(* empty cell, read by pandas as NaN) or "str" (text that float() rejects).*)
(* An item code is a record [k, s]: its Python type and the text str()     *)
(* prints for it.  Period values are integers.                             *)
(***************************************************************************)
EXTENDS Integers, Sequences, FiniteSets, TLC

\* ---------------------------------------------------------------- bounds
MaxRows == 2
NumCols == 3
MaxRecords == 2
MaxRuns == 2

\* ---------------------------------------------------------------- cells
Num(n) == [k |-> "num", v |-> n]
NaN == [k |-> "nan", v |-> 0]
Txt == [k |-> "str", v |-> 0]

\* period values a workbook cell may hold
CellValues == {Num(-5), Num(0), Num(5), Num(20), Num(30), Num(33), NaN, Txt}
\* period values of the tables that have more than one row
MultiRowCellValues == {Num(5), Num(33)}

IntId(t) == [k |-> "int", s |-> t]
StrId(t) == [k |-> "str", s |-> t]
DemandItems == {IntId("7"), StrId("B")}
Materials == {IntId("7"), StrId("7")}
Quantities == {25}

NoName == "<none>"
None == "None"
\* the value of output_file at line 317
OutputPath == "output_file"
\* the files a call creates: <input>_output_<n>.xlsx and its _temp_demand.xlsx
OutputFile(r) == [run |-> r, kind |-> "output"]
TempFile(r) == [run |-> r, kind |-> "temp_demand"]

\* sheet-name lists of the workbooks
SheetNameLists ==
  { <<"DEMAND", "Data">>, <<"Sheet1", "demand", "DATA">>, <<"Demand">>,
    <<"Data", "Sheet1">>, <<"Demands", "data">> }

\* str.lower() on the sheet names in use
Lower(name) ==
  CASE name = "DEMAND" -> "demand"
    [] name = "Demand" -> "demand"
    [] name = "DATA" -> "data"
    [] name = "Data" -> "data"
    [] name = "Sheet1" -> "sheet1"
    [] name = "Demands" -> "demands"
    [] OTHER -> name

\* ---------------------------------------------------------------- helpers
RECURSIVE LastMatch(_, _, _)
\* the loop of lines 31-35 for one target: the last sheet whose lowered name
\* equals target, NoName when there is none
LastMatch(names, target, found) ==
  IF names = <<>> THEN found
  ELSE LastMatch(Tail(names), target,
                 IF Lower(Head(names)) = target THEN Head(names) ELSE found)

\* a substring test ('demand' in name.lower()) in place of the equality
RECURSIVE LastContaining(_, _, _)
LastContaining(names, target, found) ==
  IF names = <<>> THEN found
  ELSE LastContaining(Tail(names), target,
         IF Lower(Head(names)) = target
            \/ (Lower(Head(names)) = "demands" /\ target = "demand")
         THEN Head(names) ELSE found)

FindSheetBySubstring(names, target) == LastContaining(names, target, NoName)

FindSheet(names, target) == LastMatch(names, target, NoName)

\* str(item_code) / astype(str)
Str(id) == id.s

RECURSIVE SumQty(_, _)
SumQty(records, m) ==
  IF records = <<>> THEN 0
  ELSE (IF Str(Head(records).Material) = m THEN Head(records).qty ELSE 0)
       + SumQty(Tail(records), m)

\* groupby('Material')[qty].sum().to_dict()
BuildSupply(records) ==
  [m \in {Str(records[i].Material) : i \in DOMAIN records} |-> SumQty(records, m)]

EmptyDict == [m \in {} |-> 0]

\* the try/except coercion of a cell to a number (lines 161-167)
ToNum(c) == IF c.k = "num" THEN c.v ELSE 0

RECURSIVE SumCells(_)
SumCells(cells) ==
  IF cells = <<>> THEN 0 ELSE ToNum(Head(cells)) + SumCells(Tail(cells))

\* Series.sum() over the period cells: NaN is skipped, text raises TypeError
SumRaises(cells) == \E j \in DOMAIN cells : cells[j].k = "str"
RowSum(cells) == SumCells(cells)

\* the comparison of line 133 turned around
ExceedsFlipped(demand, available) == demand < available

\* line 133
Exceeds(demand, available) == demand > available

\* the threshold of line 169 made inclusive
IsSourceInclusive(v) == 0 < v /\ v <= 30

\* line 169
IsSource(v) == 0 < v /\ v < 30

\* rounding to the nearest multiple of 10
RoundNearest(v) == ((v + 5) \div 10) * 10

\* rounding with (val // 10 + 1) * 10
RoundNext(v) == (v \div 10 + 1) * 10

\* int(np.ceil(val / 10.0)) * 10
RoundUp(v) == ((v + 9) \div 10) * 10

\* the merge without line 186
MergeKeepSource(cells, i) ==
  [cells EXCEPT ![i + 1] = Num(ToNum(cells[i + 1]) + ToNum(cells[i]))]

\* lines 171-186: add the value of cell i to cell i+1 and zero cell i
Merge(cells, i) ==
  [cells EXCEPT ![i + 1] = Num(ToNum(cells[i + 1]) + ToNum(cells[i])),
                ![i] = Num(0)]

\* lines 200-215 for one row
RoundCells(cells) ==
  [j \in DOMAIN cells |->
     IF ToNum(cells[j]) > 0 THEN Num(RoundUp(ToNum(cells[j]))) ELSE cells[j]]

InList(x, list) == \E i \in DOMAIN list : list[i] = x

\* the loop of lines 153-189 over one row, from column i on
RECURSIVE ConsolidateFrom(_, _)
ConsolidateFrom(cells, i) ==
  IF i > Len(cells) - 1 THEN cells
  ELSE ConsolidateFrom(IF IsSource(ToNum(cells[i])) THEN Merge(cells, i) ELSE cells,
                       i + 1)

\* steps 2 and 3 on one row
NormalizeRow(cells) == RoundCells(ConsolidateFrom(cells, 1))

\* ---------------------------------------------------------------- inputs
PeriodRows(vals) == [1..NumCols -> vals]
DemandRows(vals) == [item : DemandItems, periods : PeriodRows(vals)]

\* rows that hold one value in every period
UniformRows(vals) ==
  {[item |-> it, periods |-> [j \in 1..NumCols |-> v]] : it \in DemandItems, v \in vals}

\* one-row tables over every cell value, longer tables of uniform rows
TablesOfLen(n) ==
  IF n = 1 THEN {<<r>> : r \in DemandRows(CellValues)}
  ELSE [1..n -> UniformRows(MultiRowCellValues)]

Tables == UNION {TablesOfLen(n) : n \in 0..MaxRows}
TinyTables == TablesOfLen(0) \cup {<<r>> : r \in DemandRows(MultiRowCellValues)}

SupplyRecords == [Material : Materials, qty : Quantities]
RECURSIVE RecordLists(_)
RecordLists(n) ==
  IF n = 0 THEN {<<>>}
  ELSE RecordLists(n - 1) \cup
       {Append(l, r) : l \in {x \in RecordLists(n - 1) : Len(x) = n - 1}, r \in SupplyRecords}

\* Data sheets of at most two records whose Material is the integer 7
PlainRecordLists ==
  {l \in RecordLists(2) : \A i \in DOMAIN l : l[i].Material = IntId("7")}

\* every table with a plain Data sheet under the usual sheet names, and the
\* tiny tables with every Data sheet under every list of sheet names
Workbooks ==
  { [sheet_names |-> s, demand |-> t, data |-> d, data_cols |-> c] :
      s \in {<<"DEMAND", "Data">>}, t \in Tables, d \in PlainRecordLists, c \in {TRUE} }
  \cup
  { [sheet_names |-> s, demand |-> t, data |-> d, data_cols |-> c] :
      s \in SheetNameLists, t \in TinyTables, d \in RecordLists(MaxRecords),
      c \in BOOLEAN }

\* ---------------------------------------------------------------- state
VARIABLES wb, pc, run, demand_sheet_name, data_sheet_name, original_df,
          processed_df, material_qty_dict, bound, items_to_keep_original,
          row_idx, col_idx, files, out_wb, result

vars == <<wb, pc, run, demand_sheet_name, data_sheet_name, original_df,
          processed_df, material_qty_dict, bound, items_to_keep_original,
          row_idx, col_idx, files, out_wb, result>>

NoWorkbook == [sheet_names |-> <<>>, demand |-> <<>>, data |-> <<>>, data_cols |-> FALSE]

\* the locals of a call before its first statement
Locals ==
  /\ demand_sheet_name = NoName
  /\ data_sheet_name = NoName
  /\ original_df = <<>>
  /\ processed_df = <<>>
  /\ material_qty_dict = EmptyDict
  /\ bound = FALSE
  /\ items_to_keep_original = <<>>
  /\ row_idx = 0
  /\ col_idx = 0
  /\ result = NoName

Init ==
  /\ wb \in Workbooks
  /\ pc = "open"
  /\ run = 1
  /\ files = {}
  /\ out_wb = NoWorkbook
  /\ Locals

\* the locals of a call before its first statement
ResetLocals ==
  /\ demand_sheet_name' = NoName
  /\ data_sheet_name' = NoName
  /\ original_df' = <<>>
  /\ processed_df' = <<>>
  /\ material_qty_dict' = EmptyDict
  /\ bound' = FALSE
  /\ items_to_keep_original' = <<>>
  /\ row_idx' = 0
  /\ col_idx' = 0
  /\ result' = NoName

\* the outer "except Exception" (lines 319-321): print and return None
Raise ==
  /\ pc' = "done"
  /\ result' = None

\* ---------------------------------------------------------------- actions
\* lines 23-39, no sheet named 'demand': return None
AbortNoDemand ==
  /\ pc = "open"
  /\ FindSheet(wb.sheet_names, "demand") = NoName
  /\ Raise
  /\ UNCHANGED <<wb, run, demand_sheet_name, data_sheet_name, original_df,
                 processed_df, material_qty_dict, bound, items_to_keep_original,
                 row_idx, col_idx, files, out_wb>>

\* lines 23-45, the DEMAND sheet exists
FindSheets ==
  /\ pc = "open"
  /\ FindSheet(wb.sheet_names, "demand") # NoName
  /\ demand_sheet_name' = FindSheet(wb.sheet_names, "demand")
  /\ data_sheet_name' = FindSheet(wb.sheet_names, "data")
  /\ pc' = "read"
  /\ UNCHANGED <<wb, run, original_df, processed_df, material_qty_dict, bound,
                 items_to_keep_original, row_idx, col_idx, files, out_wb, result>>

\* lines 47-106: read both sheets, build the quantity dictionary, copy the
\* demand frame twice
ReadSheets ==
  /\ pc = "read"
  /\ original_df' = wb.demand
  /\ processed_df' = wb.demand
  /\ material_qty_dict' =
       (IF data_sheet_name # NoName /\ wb.data_cols
        THEN BuildSupply(wb.data) ELSE EmptyDict)
  /\ pc' = "step1"
  /\ UNCHANGED <<wb, run, demand_sheet_name, data_sheet_name, bound,
                 items_to_keep_original, row_idx, col_idx, files, out_wb, result>>

\* lines 109-114: only a non-empty dictionary binds item_col and
\* items_to_keep_original
Step1Begin ==
  /\ pc = "step1"
  /\ IF DOMAIN material_qty_dict # {}
     THEN /\ bound' = TRUE
          /\ items_to_keep_original' = <<>>
          /\ row_idx' = 1
          /\ pc' = "decide"
     ELSE /\ pc' = "print"
          /\ UNCHANGED <<bound, items_to_keep_original, row_idx>>
  /\ UNCHANGED <<wb, run, demand_sheet_name, data_sheet_name, original_df,
                 processed_df, material_qty_dict, col_idx, files, out_wb, result>>

\* lines 117-136 for one row
DecideRow ==
  /\ pc = "decide"
  /\ row_idx <= Len(processed_df)
  /\ LET code == Str(processed_df[row_idx].item)
         cells == original_df[row_idx].periods
     IN IF code \in DOMAIN material_qty_dict /\ SumRaises(cells)
        THEN /\ Raise
             /\ UNCHANGED <<items_to_keep_original, row_idx>>
        ELSE /\ items_to_keep_original' =
                  (IF code \in DOMAIN material_qty_dict
                      /\ Exceeds(RowSum(cells), material_qty_dict[code])
                   THEN Append(items_to_keep_original, code)
                   ELSE items_to_keep_original)
             /\ row_idx' = row_idx + 1
             /\ UNCHANGED <<pc, result>>
  /\ UNCHANGED <<wb, run, demand_sheet_name, data_sheet_name, original_df,
                 processed_df, material_qty_dict, bound, col_idx, files, out_wb>>

\* the loop of line 117 is over
DecideEnd ==
  /\ pc = "decide"
  /\ row_idx > Len(processed_df)
  /\ pc' = "print"
  /\ UNCHANGED <<wb, run, demand_sheet_name, data_sheet_name, original_df,
                 processed_df, material_qty_dict, bound, items_to_keep_original,
                 row_idx, col_idx, files, out_wb, result>>

\* line 139 reads items_to_keep_original: UnboundLocalError when line 114
\* never ran
PrintKeepList ==
  /\ pc = "print"
  /\ IF bound
     THEN /\ pc' = "consolidate"
          /\ row_idx' = 1
          /\ col_idx' = 1
          /\ UNCHANGED result
     ELSE /\ Raise
          /\ UNCHANGED <<row_idx, col_idx>>
  /\ UNCHANGED <<wb, run, demand_sheet_name, data_sheet_name, original_df,
                 processed_df, material_qty_dict, bound, items_to_keep_original,
                 files, out_wb>>

Kept(r) == InList(Str(processed_df[r].item), items_to_keep_original)

\* lines 142-189 for one cell of a row that is not in the keep list
ConsolidateCell ==
  /\ pc = "consolidate"
  /\ row_idx <= Len(processed_df)
  /\ ~Kept(row_idx)
  /\ col_idx <= NumCols - 1
  /\ LET cells == processed_df[row_idx].periods
     IN processed_df' =
          (IF IsSource(ToNum(cells[col_idx]))
           THEN [processed_df EXCEPT ![row_idx].periods = Merge(cells, col_idx)]
           ELSE processed_df)
  /\ IF col_idx < NumCols - 1
     THEN /\ col_idx' = col_idx + 1
          /\ UNCHANGED row_idx
     ELSE /\ col_idx' = 1
          /\ row_idx' = row_idx + 1
  /\ UNCHANGED <<wb, pc, run, demand_sheet_name, data_sheet_name, original_df,
                 material_qty_dict, bound, items_to_keep_original, files, out_wb,
                 result>>

\* lines 142-149 for a row in the keep list, or a table with one period column
ConsolidateSkipRow ==
  /\ pc = "consolidate"
  /\ row_idx <= Len(processed_df)
  /\ Kept(row_idx) \/ col_idx > NumCols - 1
  /\ row_idx' = row_idx + 1
  /\ col_idx' = 1
  /\ UNCHANGED <<wb, pc, run, demand_sheet_name, data_sheet_name, original_df,
                 processed_df, material_qty_dict, bound, items_to_keep_original,
                 files, out_wb, result>>

ConsolidateEnd ==
  /\ pc = "consolidate"
  /\ row_idx > Len(processed_df)
  /\ pc' = "round"
  /\ row_idx' = 1
  /\ UNCHANGED <<wb, run, demand_sheet_name, data_sheet_name, original_df,
                 processed_df, material_qty_dict, bound, items_to_keep_original,
                 col_idx, files, out_wb, result>>

\* lines 192-218 for one row
RoundRow ==
  /\ pc = "round"
  /\ row_idx <= Len(processed_df)
  /\ processed_df' =
       (IF Kept(row_idx) THEN processed_df
        ELSE [processed_df EXCEPT ![row_idx].periods =
                RoundCells(processed_df[row_idx].periods)])
  /\ row_idx' = row_idx + 1
  /\ UNCHANGED <<wb, pc, run, demand_sheet_name, data_sheet_name, original_df,
                 material_qty_dict, bound, items_to_keep_original, col_idx, files,
                 out_wb, result>>

RoundEnd ==
  /\ pc = "round"
  /\ row_idx > Len(processed_df)
  /\ pc' = "restore"
  /\ row_idx' = 1
  /\ UNCHANGED <<wb, run, demand_sheet_name, data_sheet_name, original_df,
                 processed_df, material_qty_dict, bound, items_to_keep_original,
                 col_idx, files, out_wb, result>>

\* lines 221-227 for one row
RestoreRow ==
  /\ pc = "restore"
  /\ row_idx <= Len(processed_df)
  /\ processed_df' =
       (IF Kept(row_idx)
        THEN [processed_df EXCEPT ![row_idx] = original_df[row_idx]]
        ELSE processed_df)
  /\ row_idx' = row_idx + 1
  /\ UNCHANGED <<wb, pc, run, demand_sheet_name, data_sheet_name, original_df,
                 material_qty_dict, bound, items_to_keep_original, col_idx, files,
                 out_wb, result>>

\* lines 229-241: the processed frame goes to the temporary file
WriteTemp ==
  /\ pc = "restore"
  /\ row_idx > Len(processed_df)
  /\ files' = files \cup {TempFile(run)}
  /\ pc' = "save"
  /\ UNCHANGED <<wb, run, demand_sheet_name, data_sheet_name, original_df,
                 processed_df, material_qty_dict, bound, items_to_keep_original,
                 row_idx, col_idx, out_wb, result>>

RECURSIVE Without(_, _)
Without(names, name) ==
  IF names = <<>> THEN <<>>
  ELSE (IF Head(names) = name THEN <<>> ELSE <<Head(names)>>) \o Without(Tail(names), name)

\* lines 246-274: copy the input, keep every other sheet, then add the
\* processed DEMAND sheet read back from the temporary file
WriteOutput ==
  /\ pc = "save"
  /\ out_wb' = [sheet_names |-> Append(Without(wb.sheet_names, demand_sheet_name),
                                       demand_sheet_name),
                demand |-> processed_df,
                data |-> wb.data,
                data_cols |-> wb.data_cols]
  /\ files' = files \cup {OutputFile(run)}
  /\ pc' = "cleanup"
  /\ UNCHANGED <<wb, run, demand_sheet_name, data_sheet_name, original_df,
                 processed_df, material_qty_dict, bound, items_to_keep_original,
                 row_idx, col_idx, result>>

\* lines 309-317: remove the temporary file, return the output path
ReturnOutput ==
  /\ pc = "cleanup"
  /\ files' = files \ {TempFile(run)}
  /\ result' = OutputPath
  /\ pc' = "done"
  /\ UNCHANGED <<wb, run, demand_sheet_name, data_sheet_name, original_df,
                 processed_df, material_qty_dict, bound, items_to_keep_original,
                 row_idx, col_idx, out_wb>>

\* process_demand_sheet is called again on the file the last call returned
Rerun ==
  /\ pc = "done"
  /\ result # None
  /\ run < MaxRuns
  /\ wb' = out_wb
  /\ run' = run + 1
  /\ pc' = "open"
  /\ ResetLocals
  /\ UNCHANGED <<files, out_wb>>

Next ==
  \/ AbortNoDemand
  \/ FindSheets
  \/ ReadSheets
  \/ Step1Begin
  \/ DecideRow
  \/ DecideEnd
  \/ PrintKeepList
  \/ ConsolidateCell
  \/ ConsolidateSkipRow
  \/ ConsolidateEnd
  \/ RoundRow
  \/ RoundEnd
  \/ RestoreRow
  \/ WriteTemp
  \/ WriteOutput
  \/ ReturnOutput
  \/ Rerun

Spec == Init /\ [][Next]_vars

\* ---------------------------------------------------------------- properties
HasSheet(w, target) == \E i \in DOMAIN w.sheet_names : Lower(w.sheet_names[i]) = target

Returned == pc = "done" /\ result = OutputPath

HasEntry(row) == Str(row.item) \in DOMAIN material_qty_dict
Available(row) == material_qty_dict[Str(row.item)]
OverSupply(row) == HasEntry(row) /\ RowSum(row.periods) > Available(row)

\* C1: when the workbook has a DEMAND sheet but no usable supply side (no
\* 'data' sheet, or a Data sheet without the two required columns), the call
\* still returns an output path and every demand row of the output is the
\* consolidated and rounded input row.
C1_SoftFailureContinues ==
  (pc = "done" /\ run = 1 /\ HasSheet(wb, "demand")
     /\ (~HasSheet(wb, "data") \/ ~wb.data_cols))
  => /\ result = OutputPath
     /\ OutputFile(1) \in files
     /\ DOMAIN out_wb.demand = DOMAIN wb.demand
     /\ \A r \in DOMAIN wb.demand :
          out_wb.demand[r].periods = NormalizeRow(wb.demand[r].periods)

\* C2: in every written output, a row whose item code has an entry in the
\* quantity dictionary and whose raw total exceeds that quantity carries
\* exactly its input period cells.
C2_Preservation ==
  Returned =>
    \A r \in DOMAIN wb.demand :
      OverSupply(wb.demand[r]) => out_wb.demand[r].periods = wb.demand[r].periods

C2_Witness ==
  /\ Returned
  /\ \E r \in DOMAIN wb.demand :
       /\ OverSupply(wb.demand[r])
       /\ NormalizeRow(wb.demand[r].periods) # wb.demand[r].periods
       /\ out_wb.demand[r].periods = wb.demand[r].periods

\* C3: a row is kept as it is if and only if its own item code has an entry
\* and its own raw total exceeds the quantity; every other row of the output
\* is the normalized input row, whatever the other rows hold.
C3_DecisionPerRow ==
  Returned =>
    \A r \in DOMAIN wb.demand :
      /\ Kept(r) <=> OverSupply(wb.demand[r])
      /\ out_wb.demand[r].periods =
           (IF OverSupply(wb.demand[r]) THEN wb.demand[r].periods
            ELSE NormalizeRow(wb.demand[r].periods))

\* C4: in every written output, the period cells of a row whose item code has
\* an entry sum to at most the available quantity of that item.
C4_TotalWithinSupply ==
  Returned =>
    \A r \in DOMAIN out_wb.demand :
      HasEntry(out_wb.demand[r])
        => RowSum(out_wb.demand[r].periods) <= Available(out_wb.demand[r])

NonNumeric(c) == c.k # "num"

\* C5: with a DEMAND sheet and a non-empty quantity dictionary, a table that
\* holds an empty or a text cell is still processed to the end: the call
\* returns the output path, not None.
C5_NonNumericNeverFails ==
  (pc = "done" /\ HasSheet(wb, "demand") /\ DOMAIN material_qty_dict # {}
     /\ \E r \in DOMAIN wb.demand : \E j \in 1..NumCols :
          NonNumeric(wb.demand[r].periods[j]))
  => result = OutputPath

\* C6: a workbook without a sheet named 'demand' (case-insensitively) makes
\* the call return None, and at no moment of the call does a temporary or an
\* output file exist.
C6_AbortWritesNothing ==
  ~HasSheet(wb, "demand")
  => /\ pc \in {"open", "done"}
     /\ pc = "done" => result = None
     /\ files = {}
     /\ out_wb = NoWorkbook

C6_Witness ==
  /\ pc = "done"
  /\ ~HasSheet(wb, "demand")
  /\ HasSheet(wb, "data")
  /\ result = None
  /\ files = {}

\* the consolidation pass over the whole table is over, rounding has not begun
Consolidated == pc = "round" /\ row_idx = 1

C7_StepMoves ==
  pc = "consolidate" =>
    \A r \in DOMAIN processed_df :
      LET old == processed_df[r].periods
          new == processed_df'[r].periods
      IN /\ RowSum(new) = RowSum(old)
         /\ new # old =>
              \E i \in 1..(NumCols - 1) :
                /\ new[i] = Num(0)
                /\ new[i + 1] = Num(ToNum(old[i + 1]) + ToNum(old[i]))
                /\ \A j \in 1..NumCols : j \notin {i, i + 1} => new[j] = old[j]

\* C7: every step of the consolidation pass keeps the sum of each row (empty
\* and text cells counted as 0) and changes a row only by moving the value of
\* one cell into the cell to its right and zeroing the source; so after the
\* pass every row that is not kept has the sum it had before it.
C7_ConsolidationConserves ==
  /\ [][C7_StepMoves]_vars
  /\ [](Consolidated =>
          \A r \in DOMAIN processed_df :
            ~Kept(r) => RowSum(processed_df[r].periods) = RowSum(original_df[r].periods))

C7_Witness ==
  /\ Consolidated
  /\ \E r \in DOMAIN processed_df :
       /\ ~Kept(r)
       /\ processed_df[r].periods # original_df[r].periods
       /\ \E j \in 1..NumCols : NonNumeric(original_df[r].periods[j])
       /\ RowSum(processed_df[r].periods) = RowSum(original_df[r].periods)

C8_RoundStep ==
  (pc = "round" /\ row_idx <= Len(processed_df) /\ ~Kept(row_idx)) =>
    \A j \in 1..NumCols :
      LET old == processed_df[row_idx].periods[j]
          new == processed_df'[row_idx].periods[j]
          v == ToNum(old)
      IN IF v > 0
         THEN /\ new.k = "num"
              /\ new.v % 10 = 0
              /\ new.v >= v
              /\ new.v < v + 10
              /\ v % 10 = 0 => new.v = v
         ELSE new = old

RECURSIVE CascadeFrom(_, _, _)
CascadeFrom(cells, i, carry) ==
  LET cur == IF carry > 0 THEN Num(ToNum(cells[i]) + carry) ELSE cells[i]
      v == ToNum(cur)
  IN IF i = Len(cells) THEN <<cur>>
     ELSE IF 0 < v /\ v < 30 THEN <<Num(0)>> \o CascadeFrom(cells, i + 1, v)
     ELSE <<cur>> \o CascadeFrom(cells, i + 1, 0)

C9_ScanStep ==
  (pc = "consolidate" /\ row_idx <= Len(processed_df) /\ ~Kept(row_idx)
     /\ NumCols > 1) =>
    LET cells == processed_df[row_idx].periods
        v == ToNum(cells[col_idx])
    IN /\ col_idx < NumCols
       /\ processed_df'[row_idx].periods =
            (IF 0 < v /\ v < 30
             THEN [cells EXCEPT ![col_idx] = Num(0),
                                ![col_idx + 1] = Num(ToNum(cells[col_idx + 1]) + v)]
             ELSE cells)
       /\ \A r \in DOMAIN processed_df : r # row_idx => processed_df'[r] = processed_df[r]
       /\ \/ row_idx' = row_idx /\ col_idx' = col_idx + 1
          \/ row_idx' = row_idx + 1 /\ col_idx' = 1 /\ col_idx = NumCols - 1

\* C9: consolidation of a row that is not kept visits the positions 1 to
\* last-1 once each in increasing order; at position i a current value v with
\* 0 < v < 30 is added to position i+1 and position i becomes 0, any other
\* value (0, 30, more) stays; the value accumulated at i+1 is what the scan
\* sees there, so the finished row is the one a single carry pass yields.
C9_SinglePassCascade ==
  /\ [][C9_ScanStep]_vars
  /\ [](Consolidated =>
          \A r \in DOMAIN processed_df :
            ~Kept(r) => processed_df[r].periods = CascadeFrom(original_df[r].periods, 1, 0))

C9_Witness ==
  /\ Consolidated
  /\ \E r \in DOMAIN processed_df :
       /\ ~Kept(r)
       /\ \E i \in 1..(NumCols - 2) :
            /\ original_df[r].periods[i] = Num(5)
            /\ original_df[r].periods[i + 1] = Num(20)
            /\ original_df[r].periods[i + 2] = Num(33)
            /\ processed_df[r].periods[i] = Num(0)
            /\ processed_df[r].periods[i + 1] = Num(0)
            /\ ToNum(processed_df[r].periods[i + 2]) >= 58

NormalShape(cells) ==
  \A j \in 1..NumCols :
    LET v == ToNum(cells[j])
    IN \/ v <= 0
       \/ v % 10 = 0 /\ (j < NumCols => v >= 30)

\* C10: a call on the output of a call (same Data sheet) returns an output
\* whose DEMAND table equals its input, also for rows that the second call
\* keeps because rounding lifted their total above the available quantity;
\* and in every output each row that was not kept has, in every period but
\* the last, a value <= 0 or a multiple of 10 that is >= 30, and in the last a
\* value <= 0 or a multiple of 10.
C10_Idempotent ==
  /\ (pc = "done" /\ run >= 2) => (result = OutputPath /\ out_wb.demand = wb.demand)
  /\ Returned =>
       \A r \in DOMAIN out_wb.demand : ~Kept(r) => NormalShape(out_wb.demand[r].periods)

C10_Witness ==
  /\ Returned
  /\ run = 2
  /\ out_wb.demand = wb.demand
  /\ \E r \in DOMAIN wb.demand :
       /\ Kept(r)
       /\ OverSupply(wb.demand[r])
       /\ NormalShape(wb.demand[r].periods)
       /\ wb.demand[r].periods[1] = Num(0)
       /\ RowSum(wb.demand[r].periods) < Available(wb.demand[r]) + 10

====
